---- MODULE Spec2Model ----
(***************************************************************************)
(* Garage-Manager (src/garage.py): the Garage collection, its CSV          *)
(* persistence (csv.writer / csv.reader of the "excel" dialect over a file *)
(* opened with newline=''), the delete_car UI flow and the main menu loop. *)
(* Text is a sequence of one-character strings; a file is a record         *)
(* [exists, text].                                                         *)
(***************************************************************************)
EXTENDS Integers, Sequences, FiniteSets, TLC

VARIABLES
    cars,      \* Garage.cars of the garage under test (my_garage in main)
    new_cars,  \* Garage.cars of the second garage of the save/load cycle
    file,      \* the file at the path: [exists, text]
    pc,        \* where the driver is: "api", "start", "menu", "exit", "rt_save", ...
    h          \* the last operation: its name, arguments and outcome

vars == <<cars, new_cars, file, pc, h>>

\* ------------------------------------------------------------------ bounds
\* Largest number of cars a garage of the model holds.
MaxCars == 2

\* ------------------------------------------------------------ text helpers
Digits == <<"0", "1", "2", "3", "4", "5", "6", "7", "8", "9">>

IsDigit(c) == \E i \in 1..10 : Digits[i] = c

DigitVal(c) == (CHOOSE i \in 1..10 : Digits[i] = c) - 1

\* The characters str.strip() / int() treat as white space (those the model uses).
IsSpace(c) == c \in {" ", "\t", "\n", "\r"}

RECURSIVE NatToStr(_)
NatToStr(n) ==
    IF n < 10 THEN <<Digits[n + 1]>>
    ELSE NatToStr(n \div 10) \o <<Digits[(n % 10) + 1]>>

\* str(year): what csv.writer writes for a field that is an int.
IntToStr(n) == IF n < 0 THEN <<"-">> \o NatToStr(-n) ELSE NatToStr(n)

RECURSIVE LStrip(_)
LStrip(s) == IF s # <<>> /\ IsSpace(Head(s)) THEN LStrip(Tail(s)) ELSE s

RECURSIVE RStrip(_)
RStrip(s) ==
    IF s # <<>> /\ IsSpace(s[Len(s)]) THEN RStrip(SubSeq(s, 1, Len(s) - 1)) ELSE s

\* Digits with single underscores between them (the body of an int literal).
RECURSIVE DigitBody(_, _)
DigitBody(s, prevDigit) ==
    IF s = <<>> THEN prevDigit
    ELSE IF IsDigit(Head(s)) THEN DigitBody(Tail(s), TRUE)
    ELSE IF Head(s) = "_" THEN prevDigit /\ Tail(s) # <<>> /\ DigitBody(Tail(s), FALSE)
    ELSE FALSE

RECURSIVE DigitsValue(_, _)
DigitsValue(s, acc) ==
    IF s = <<>> THEN acc
    ELSE IF Head(s) = "_" THEN DigitsValue(Tail(s), acc)
    ELSE DigitsValue(Tail(s), 10 * acc + DigitVal(Head(s)))

\* int(text): [ok, val]; ok = FALSE is the ValueError.
PyInt(text) ==
    LET s == RStrip(LStrip(text))
        signed == s # <<>> /\ Head(s) \in {"+", "-"}
        body == IF signed THEN Tail(s) ELSE s
    IN  IF body # <<>> /\ DigitBody(body, FALSE)
        THEN [ok |-> TRUE,
              val |-> IF signed /\ Head(s) = "-"
                      THEN 0 - DigitsValue(body, 0) ELSE DigitsValue(body, 0)]
        ELSE [ok |-> FALSE, val |-> 0]

\* --------------------------------------------------------------- csv.writer
\* A writer that quotes only for the delimiter and the quote character.
NeedsQuoteNoLineBreaks(field) ==
    \E i \in DOMAIN field : field[i] \in {",", "\""}

\* QUOTE_MINIMAL: a field is quoted when it holds the delimiter, the quote
\* character or a character of the line terminator "\r\n".
NeedsQuote(field) ==
    \E i \in DOMAIN field : field[i] \in {",", "\"", "\r", "\n"}

RECURSIVE DoubleQuotes(_)
DoubleQuotes(s) ==
    IF s = <<>> THEN <<>>
    ELSE (IF Head(s) = "\"" THEN <<"\"", "\"">> ELSE <<Head(s)>>)
         \o DoubleQuotes(Tail(s))

WriteField(field) ==
    IF NeedsQuote(field) THEN <<"\"">> \o DoubleQuotes(field) \o <<"\"">>
    ELSE field

RECURSIVE JoinFields(_)
JoinFields(row) ==
    IF row = <<>> THEN <<>>
    ELSE IF Len(row) = 1 THEN WriteField(row[1])
    ELSE WriteField(row[1]) \o <<",">> \o JoinFields(Tail(row))

\* writer.writerow(row): a lone empty field is written quoted.
WriteRow(row) ==
    (IF Len(row) = 1 /\ row[1] = <<>> THEN <<"\"", "\"">> ELSE JoinFields(row))
    \o <<"\r", "\n">>

\* --------------------------------------------------------------- csv.reader
\* The end-of-line marker the reader processes after the characters of a line.
EOL == "EOL"

\* parse_reset: the reader's state at the start of a record.
ParseReset ==
    [state |-> "START_RECORD", field |-> <<>>, fields |-> <<>>, err |-> FALSE, rows |-> <<>>]

IsNL(c) == c \in {"\n", "\r"}

SaveField(p, next) ==
    [p EXCEPT !.fields = Append(p.fields, p.field), !.field = <<>>, !.state = next]

AddChar(p, c, next) == [p EXCEPT !.field = Append(p.field, c), !.state = next]

AfterLine(c) == IF c = EOL THEN "START_RECORD" ELSE "EAT_CRNL"

StartField(p, c) ==
    IF IsNL(c) \/ c = EOL THEN SaveField(p, AfterLine(c))
    ELSE IF c = "\"" THEN [p EXCEPT !.state = "IN_QUOTED_FIELD"]
    ELSE IF c = "," THEN SaveField(p, "START_FIELD")
    ELSE AddChar(p, c, "IN_FIELD")

\* parse_process_char: one step of the reader's state machine (excel dialect:
\* delimiter ",", quotechar '"', doublequote, no escapechar, not strict).
ProcessChar(p, c) ==
    CASE p.state = "START_RECORD" ->
            IF c = EOL THEN p
            ELSE IF IsNL(c) THEN [p EXCEPT !.state = "EAT_CRNL"]
            ELSE StartField(p, c)
      [] p.state = "START_FIELD" -> StartField(p, c)
      [] p.state = "IN_FIELD" ->
            IF IsNL(c) \/ c = EOL THEN SaveField(p, AfterLine(c))
            ELSE IF c = "," THEN SaveField(p, "START_FIELD")
            ELSE AddChar(p, c, "IN_FIELD")
      [] p.state = "IN_QUOTED_FIELD" ->
            IF c = EOL THEN p
            ELSE IF c = "\"" THEN [p EXCEPT !.state = "QUOTE_IN_QUOTED_FIELD"]
            ELSE AddChar(p, c, "IN_QUOTED_FIELD")
      [] p.state = "QUOTE_IN_QUOTED_FIELD" ->
            IF c = "\"" THEN AddChar(p, c, "IN_QUOTED_FIELD")
            ELSE IF c = "," THEN SaveField(p, "START_FIELD")
            ELSE IF IsNL(c) \/ c = EOL THEN SaveField(p, AfterLine(c))
            ELSE AddChar(p, c, "IN_FIELD")
      [] OTHER ->  \* EAT_CRNL
            IF IsNL(c) THEN p
            ELSE IF c = EOL THEN [p EXCEPT !.state = "START_RECORD"]
            ELSE [p EXCEPT !.err = TRUE]

\* The file iterator with newline='': a line ends after "\n", after a "\r"
\* that no "\n" follows, and at the end of the text; line ends are kept
\* untranslated.
LineEndsAt(t, i) ==
    \/ t[i] = "\n"
    \/ t[i] = "\r" /\ ~(i < Len(t) /\ t[i + 1] = "\n")
    \/ i = Len(t)

\* The end of a line: the reader processes EOL, and returns the record when
\* its state is START_RECORD; the next call starts from parse_reset.
EndOfLine(p) ==
    LET q == ProcessChar(p, EOL)
    IN  IF q.state = "START_RECORD" /\ ~q.err
        THEN [ParseReset EXCEPT !.rows = Append(p.rows, q.fields)]
        ELSE q

\* The reader at character i of the text t. err: csv.Error was raised.
ReadChar(p, t, i) ==
    IF p.err THEN p
    ELSE LET q == ProcessChar(p, t[i])
         IN  IF LineEndsAt(t, i) /\ ~q.err THEN EndOfLine(q) ELSE q

\* The reader over t[lo..hi], left to right (halved to keep the evaluation
\* shallow).
RECURSIVE ReadRange(_, _, _, _)
ReadRange(p, t, lo, hi) ==
    IF p.err \/ lo > hi THEN p
    ELSE IF lo = hi THEN ReadChar(p, t, lo)
    ELSE ReadRange(ReadRange(p, t, lo, (lo + hi) \div 2), t, ((lo + hi) \div 2) + 1, hi)

\* list(csv.reader(f)) of a file holding text: at the end of the input an
\* unfinished field or an open quoted field is saved as the last record.
\* err: the reader raised csv.Error after the rows returned.
ParseCSV(text) ==
    LET p == ReadRange(ParseReset, text, 1, Len(text))
    IN  [rows |-> IF ~p.err /\ (p.field # <<>> \/ p.state = "IN_QUOTED_FIELD")
                  THEN Append(p.rows, Append(p.fields, p.field))
                  ELSE p.rows,
         err |-> p.err]

\* ------------------------------------------------------------------- Car
Car(color, year, make, model) ==
    [color |-> color, year |-> year, make |-> make, model |-> model]

\* writer.writerow(["color", "year", "make", "model"])
Header == << <<"c", "o", "l", "o", "r">>, <<"y", "e", "a", "r">>,
             <<"m", "a", "k", "e">>, <<"m", "o", "d", "e", "l">> >>

\* writer.writerow([car_obj.color, car_obj.year, car_obj.make, car_obj.model])
CarRow(car) == <<car.color, IntToStr(car.year), car.make, car.model>>

RECURSIVE WriteCars(_)
WriteCars(cs) ==
    IF cs = <<>> THEN <<>> ELSE WriteRow(CarRow(Head(cs))) \o WriteCars(Tail(cs))

\* What a save that succeeds leaves in the file: the header row, then one
\* row per car.
SaveText(cs) == WriteRow(Header) \o WriteCars(cs)

NoFile == [exists |-> FALSE, text |-> <<>>]

FileOf(text) == [exists |-> TRUE, text |-> text]

\* A save that opens the file with mode='a'.
OpenForAppend(f, text) == FileOf(f.text \o text)

\* The file after open(file_path, mode='w'): created or truncated, then written.
OpenForWrite(f, text) == FileOf(text)

\* Garage.save: the outcomes of one call. It succeeds; or open() raises
\* IOError and the file is as it was; or a write raises IOError and the file,
\* already truncated, holds nothing or the rows whose writes completed. The
\* IOError is caught and reported; self.cars is not assigned.
SaveOutcomes(cs, f) ==
    {[file |-> OpenForWrite(f, SaveText(cs)), outcome |-> "saved"]}
    \cup {[file |-> f, outcome |-> "save_error"]}
    \cup {[file |-> OpenForWrite(f, <<>>), outcome |-> "save_error"]}
    \cup {[file |-> OpenForWrite(f, SaveText(SubSeq(cs, 1, k))), outcome |-> "save_error"] :
            k \in 0..(Len(cs) - 1)}

\* Car(color=row[0], year=int(row[1]), make=row[2], model=row[3]): row[1] of
\* a short row raises IndexError, int() of a non-integer raises ValueError,
\* row[2] and row[3] of a short row raise IndexError.
RowToCar(row) ==
    IF Len(row) < 2 THEN [ok |-> FALSE, car |-> Car(<<>>, 0, <<>>, <<>>)]
    ELSE IF ~PyInt(row[2]).ok THEN [ok |-> FALSE, car |-> Car(<<>>, 0, <<>>, <<>>)]
    ELSE IF Len(row) < 4 THEN [ok |-> FALSE, car |-> Car(<<>>, 0, <<>>, <<>>)]
    ELSE [ok |-> TRUE, car |-> Car(row[1], PyInt(row[2]).val, row[3], row[4])]

\* An except branch that keeps the cars appended so far.
LoadFailedKeepsCars(cs) == [cars |-> cs, outcome |-> "error"]

\* The except branch of load: the error is reported and self.cars = [].
LoadFailed(cs) == [cars |-> <<>>, outcome |-> "error"]

\* The for loop of load over the rows after the header: a row that is not
\* empty is appended to self.cars; the first row that raises ends the load
\* with self.cars = [].
RECURSIVE LoadRows(_, _)
LoadRows(cs, rows) ==
    IF rows = <<>> THEN [cars |-> cs, outcome |-> "loaded"]
    ELSE IF Head(rows) = <<>> THEN LoadRows(cs, Tail(rows))
    ELSE LET r == RowToCar(Head(rows))
         IN  IF r.ok THEN LoadRows(Append(cs, r.car), Tail(rows))
             ELSE LoadFailed(cs)

\* A load that empties the garage when the file is missing.
LoadNotFoundResets(cs) == [cars |-> <<>>, outcome |-> "not_found"]

\* What load does when os.path.exists(file_path) is false.
LoadNotFound(cs) == [cars |-> cs, outcome |-> "not_found"]

\* Garage.load on a garage holding cs: ioFail is an IOError raised by open()
\* or by reading. outcome: "not_found", "loaded", "empty_file" (next(reader)
\* raised StopIteration: a silent return), "error" (the except branch) or
\* "csv_error" (csv.Error, which load does not catch).
LoadFile(cs, f, ioFail) ==
    IF ~f.exists THEN LoadNotFound(cs)
    ELSE IF ioFail THEN LoadFailed(cs)
    ELSE LET parsed == ParseCSV(f.text)
         IN  IF parsed.rows = <<>>
             THEN [cars |-> cs, outcome |-> IF parsed.err THEN "csv_error" ELSE "empty_file"]
             ELSE LET r == LoadRows(cs, Tail(parsed.rows))
                  IN  IF r.outcome = "loaded" /\ parsed.err
                      THEN [r EXCEPT !.outcome = "csv_error"]
                      ELSE r

\* An add that inserts at the front.
PrependCar(cs, car) == <<car>> \o cs

\* self.cars.append(car)
AppendCar(cs, car) == Append(cs, car)

\* list.pop(i) accepts -len <= i < len, a negative i counting from the end.
PopInRange(cs, i) == 0 - Len(cs) <= i /\ i < Len(cs)

\* A pop() that ignores its index and takes the last element.
PopLast(cs, i) == Len(cs)

\* The 1-based position pop(i) removes.
PopPos(cs, i) == IF i < 0 THEN Len(cs) + i + 1 ELSE i + 1

\* self.cars.pop(car_index): [ok, cars, ret]; ok = FALSE is the IndexError,
\* which remove_car lets through.
RemoveAt(cs, i) ==
    IF PopInRange(cs, i)
    THEN [ok |-> TRUE,
          cars |-> SubSeq(cs, 1, PopPos(cs, i) - 1) \o SubSeq(cs, PopPos(cs, i) + 1, Len(cs)),
          ret |-> <<cs[PopPos(cs, i)]>>]
    ELSE [ok |-> FALSE, cars |-> cs, ret |-> <<>>]

\* A delete_car that passes the 1-based number on as the index.
DeleteIndexOneBased(n) == n

\* delete_car: the 0-based index remove_car is given for the number n.
DeleteIndex(n) == n - 1

\* delete_car: 1 <= car_num_to_delete <= len(garage.cars)
DeleteInRange(cs, n) == 1 <= n /\ n <= Len(cs)

\* ------------------------------------------------------------------ inputs
\* The cars the callers of add_car offer.
CarPool ==
    { Car(<<"B">>, 2020, <<"T">>, <<"M", "3">>),
      Car(<<",">>, -3, <<"\"">>, <<"a", "\n", "b">>) }

\* The cars of the save/load cycle: fields that are empty, hold the
\* delimiter, quotes, line breaks, leading and trailing blanks, and years of
\* either sign.
CyclePool ==
    { Car(<<"B">>, 2020, <<"T">>, <<"M", " ", "3">>),
      Car(<<>>, 0, <<>>, <<>>),
      Car(<<",">>, -3, <<"\"">>, <<"\n">>),
      Car(<<"\r">>, 7, <<"\r", "\n">>, <<"\"", "\"">>),
      Car(<<"a", "\"">>, 12, <<"\"", "a">>, <<",", "\"", ",">>),
      Car(<<" ", "a">>, -10, <<"a", " ">>, <<"a", "\n", "\"", ",", "b">>) }

\* Non-empty sequences of at most MaxCars cars of a pool.
RECURSIVE SeqsUpTo(_, _)
SeqsUpTo(pool, n) ==
    IF n = 0 THEN {<<>>}
    ELSE LET shorter == SeqsUpTo(pool, n - 1)
         IN  shorter \cup {Append(q, c) : q \in {r \in shorter : Len(r) = n - 1}, c \in pool}

\* The indexes callers give remove_car.
IndexInputs == (0 - (MaxCars + 1))..(MaxCars + 1) \cup {99}

\* What the user types at "Enter the number of the car to delete: ".
DeleteInputs ==
    { <<"a", "b", "c">>, <<>>, <<"0">>, <<"1">>, <<"9", "9">>, <<"-", "1">>,
      <<" ", "2", " ">>, <<"+", "3">> }

\* What the user types at the prompts of prompt_for_new_car: the answers to
\* "Enter year: " end with the first one int() accepts. input() returns a
\* line without its line break.
PromptInputs ==
    { [color |-> <<"B">>, years |-> << <<"2", "0", "2", "0">> >>,
       make |-> <<"T">>, model |-> <<"M", "3">>],
      [color |-> <<",">>, years |-> << <<"x">>, <<>>, <<"-", "3">> >>,
       make |-> <<"\"">>, model |-> <<"a", " ", "b">>],
      [color |-> <<>>, years |-> << <<"1", ".", "5">>, <<" ", "0">> >>,
       make |-> <<>>, model |-> <<>>] }

HeaderLine == JoinFields(Header)

RECURSIVE JoinLines(_)
JoinLines(lines) ==
    IF lines = <<>> THEN <<>> ELSE Head(lines) \o <<"\n">> \o JoinLines(Tail(lines))

GoodLine == <<"R", ",", "7", ",", "F", ",", "M">>
OtherLine == <<"\"", "B", ",", "\"", ",", " ", "8", ",", "T", ",", "S", ",", "x">>
ShortLine == <<"R", ",", "7", ",", "F">>
BadYearLine == <<"R", ",", "x", ",", "F", ",", "M">>

\* The files a load may find at the path, besides those save wrote: none, an
\* empty one, a header alone, well-formed rows (with "\n" line ends, a blank
\* line, a fifth field, no header), and rows that are too short or whose
\* year is not an integer.
InitFiles ==
    { NoFile,
      FileOf(<<>>),
      FileOf(SaveText(<<>>)),
      FileOf(JoinLines(<<HeaderLine, GoodLine>>)),
      FileOf(JoinLines(<<HeaderLine, <<>>, GoodLine, <<>>, OtherLine>>)),
      FileOf(JoinLines(<<GoodLine, OtherLine>>)),
      FileOf(HeaderLine \o <<"\n">> \o ShortLine),
      FileOf(JoinLines(<<HeaderLine, BadYearLine>>)),
      FileOf(JoinLines(<<HeaderLine, GoodLine, ShortLine>>)),
      FileOf(JoinLines(<<HeaderLine, <<>>>>)),
      FileOf(JoinLines(<<HeaderLine, <<"R">>, GoodLine>>)) }

\* --------------------------------------------------------------- the state
H(op, outcome, idx, inp, car, save) ==
    [op |-> op, outcome |-> outcome, idx |-> idx, inp |-> inp, car |-> car, save |-> save,
     io |-> FALSE]

\* The record of a load: io says that open() or a read raised IOError.
HLoad(op, outcome, save, f, ioFail) ==
    [H(op, outcome, 0, <<>>, <<>>, save) EXCEPT !.io = f.exists /\ ioFail]

InitCommon ==
    /\ cars = <<>>        \* Garage.__init__
    /\ new_cars = <<>>
    /\ file \in InitFiles
    /\ h = H("init", "none", 0, <<>>, <<>>, "none")

\* Garage.add_car(car)
AddCar(car) ==
    /\ pc = "api"
    /\ Len(cars) < MaxCars
    /\ cars' = AppendCar(cars, car)
    /\ h' = H("add_car", "ok", 0, <<>>, <<car>>, "none")
    /\ UNCHANGED <<new_cars, file, pc>>

\* Garage.remove_car(car_index)
RemoveCar(i) ==
    /\ pc = "api"
    /\ LET r == RemoveAt(cars, i)
       IN  /\ cars' = r.cars
           /\ h' = H("remove_car", IF r.ok THEN "ok" ELSE "IndexError", i, <<>>, r.ret, "none")
    /\ UNCHANGED <<new_cars, file, pc>>

\* Garage.load(file_path)
Load(ioFail) ==
    /\ pc = "api"
    /\ LET r == LoadFile(cars, file, ioFail)
       IN  /\ Len(r.cars) <= MaxCars
           /\ cars' = r.cars
           /\ h' = HLoad("load", r.outcome, "none", file, ioFail)
    /\ UNCHANGED <<new_cars, file, pc>>

\* Garage.save(file_path)
Save ==
    /\ pc = "api"
    /\ \E s \in SaveOutcomes(cars, file) :
           /\ file' = s.file
           /\ h' = H("save", s.outcome, 0, <<>>, <<>>, s.outcome)
    /\ UNCHANGED <<cars, new_cars, pc>>

\* delete_car(garage): nothing is read from the user when the garage is
\* empty; int(input(...)) raising ValueError is reported; a number in
\* 1..len removes the car and saves; any other number is reported.
DeleteCarStep(inp) ==
    IF cars = <<>>
    THEN /\ h' = H("delete_car", "empty", 0, <<>>, <<>>, "none")
         /\ UNCHANGED <<cars, file>>
    ELSE IF ~PyInt(inp).ok
    THEN /\ h' = H("delete_car", "invalid_input", 0, inp, <<>>, "none")
         /\ UNCHANGED <<cars, file>>
    ELSE IF DeleteInRange(cars, PyInt(inp).val)
    THEN LET r == RemoveAt(cars, DeleteIndex(PyInt(inp).val))
         IN  \E s \in SaveOutcomes(r.cars, file) :
                /\ cars' = r.cars
                /\ file' = s.file
                /\ h' = H("delete_car", "deleted", PyInt(inp).val, inp, r.ret, s.outcome)
    ELSE /\ h' = H("delete_car", "invalid_number", PyInt(inp).val, inp, <<>>, "none")
         /\ UNCHANGED <<cars, file>>

DeleteCar(inp) ==
    /\ pc = "api"
    /\ DeleteCarStep(inp)
    /\ UNCHANGED <<new_cars, pc>>

Init == InitCommon /\ pc = "api"

Next ==
    \/ \E car \in CarPool : AddCar(car)
    \/ \E i \in IndexInputs : RemoveCar(i)
    \/ \E ioFail \in BOOLEAN : Load(ioFail)
    \/ Save
    \/ \E inp \in DeleteInputs : DeleteCar(inp)

Spec == Init /\ [][Next]_vars

\* ------------------------------------------------------------------- main
RECURSIVE FirstYear(_)
FirstYear(years) ==
    IF PyInt(Head(years)).ok THEN PyInt(Head(years)).val ELSE FirstYear(Tail(years))

\* prompt_for_new_car(): "Enter year: " is asked again until int() accepts
\* the answer.
PromptForNewCar(p) == Car(p.color, FirstYear(p.years), p.make, p.model)

\* my_garage = Garage(); my_garage.load(GARAGE_FILE)
MainLoad(ioFail) ==
    /\ pc = "start"
    /\ LET r == LoadFile(cars, file, ioFail)
       IN  /\ cars' = r.cars
           /\ h' = HLoad("main_load", r.outcome, "none", file, ioFail)
    /\ pc' = "menu"
    /\ UNCHANGED <<new_cars, file>>

\* choice "1": prompt_for_new_car, add_car, save(GARAGE_FILE)
MenuAdd(p) ==
    /\ pc = "menu"
    /\ Len(cars) < MaxCars
    /\ LET car == PromptForNewCar(p)
       IN  \E s \in SaveOutcomes(AppendCar(cars, car), file) :
              /\ cars' = AppendCar(cars, car)
              /\ file' = s.file
              /\ h' = H("menu_add", "added", 0, <<>>, <<car>>, s.outcome)
    /\ UNCHANGED <<new_cars, pc>>

\* choice "2": list_cars prints and changes nothing
MenuList ==
    /\ pc = "menu"
    /\ h' = H("menu_list", IF cars = <<>> THEN "empty" ELSE "listed", 0, <<>>, <<>>, "none")
    /\ UNCHANGED <<cars, new_cars, file, pc>>

\* choice "3": delete_car(my_garage)
MenuDelete(inp) ==
    /\ pc = "menu"
    /\ DeleteCarStep(inp)
    /\ UNCHANGED <<new_cars, pc>>

\* choice "4": break
MenuExit ==
    /\ pc = "menu"
    /\ pc' = "exit"
    /\ h' = H("menu_exit", "none", 0, <<>>, <<>>, "none")
    /\ UNCHANGED <<cars, new_cars, file>>

\* any other choice
MenuInvalid ==
    /\ pc = "menu"
    /\ h' = H("menu_invalid", "none", 0, <<>>, <<>>, "none")
    /\ UNCHANGED <<cars, new_cars, file, pc>>

InitMain == InitCommon /\ pc = "start"

NextMain ==
    \/ \E ioFail \in BOOLEAN : MainLoad(ioFail)
    \/ \E p \in PromptInputs : MenuAdd(p)
    \/ MenuList
    \/ \E inp \in DeleteInputs : MenuDelete(inp)
    \/ MenuExit
    \/ MenuInvalid

SpecMain == InitMain /\ [][NextMain]_vars

\* ------------------------------------------------- the save and load cycle
\* test_save_and_load_cycle: a garage holding cars saves to the path, then a
\* new Garage() loads from it.
InitCycle ==
    /\ cars \in (SeqsUpTo(CyclePool, MaxCars) \ {<<>>})
    /\ new_cars = <<>>
    /\ file \in {NoFile, FileOf(JoinLines(<<HeaderLine, ShortLine>>))}
    /\ pc = "cycle_save"
    /\ h = H("init", "none", 0, <<>>, <<>>, "none")

\* populated_garage.save(file_path)
CycleSave ==
    /\ pc = "cycle_save"
    /\ \E s \in SaveOutcomes(cars, file) :
           /\ file' = s.file
           /\ h' = H("save", s.outcome, 0, <<>>, <<>>, s.outcome)
    /\ pc' = "cycle_load"
    /\ UNCHANGED <<cars, new_cars>>

\* new_garage = Garage(); new_garage.load(file_path)
CycleLoad(ioFail) ==
    /\ pc = "cycle_load"
    /\ LET r == LoadFile(<<>>, file, ioFail)
       IN  /\ new_cars' = r.cars
           /\ h' = HLoad("load", r.outcome, h.save, file, ioFail)
    /\ pc' = "cycle_done"
    /\ UNCHANGED <<cars, file>>

NextCycle ==
    \/ CycleSave
    \/ \E ioFail \in BOOLEAN : CycleLoad(ioFail)

SpecCycle == InitCycle /\ [][NextCycle]_vars

\* ------------------------------------------------------------- properties
SameFields(a, b) ==
    /\ a.color = b.color
    /\ a.year = b.year
    /\ a.make = b.make
    /\ a.model = b.model

\* C1: a successful save followed by a load (that meets no I/O failure) on a
\* newly created garage leaves the new garage holding a sequence of the same
\* length whose i-th car has the color, year, make and model of the i-th car
\* of the original.
C1_RoundTrip ==
    (pc = "cycle_done" /\ h.save = "saved" /\ ~h.io) =>
        /\ Len(new_cars) = Len(cars)
        /\ \A i \in 1..Len(cars) : SameFields(new_cars[i], cars[i])

C1_Witness ==
    /\ pc = "cycle_done" /\ h.save = "saved" /\ ~h.io
    /\ Len(cars) >= 2
    /\ new_cars = cars
    /\ \E i \in 1..Len(cars) : NeedsQuote(cars[i].model) /\ cars[i].year < 0

\* C2: remove_car with an index outside [0, length), negative or too large,
\* fails with the out-of-range error and leaves the sequence unchanged.
C2_OutOfRangeFails ==
    [][(h'.op = "remove_car" /\ (h'.idx < 0 \/ h'.idx >= Len(cars)))
        => (h'.outcome = "IndexError" /\ cars' = cars)]_vars

\* The cars a file encodes: its non-blank rows after the first, in order.
FileCars(f) == LoadFile(<<>>, f, FALSE).cars

\* C3: after a load that succeeds ("Garage loaded successfully."), whatever
\* the garage held before, the sequence is exactly the non-blank data rows
\* of the file, in file order; a header-only file yields a zero-length
\* sequence.
C3_LoadEqualsFile ==
    (h.op = "load" /\ h.outcome = "loaded") => cars = FileCars(file)

DataRows(f) ==
    LET rows == ParseCSV(f.text).rows
    IN  IF rows = <<>> THEN <<>> ELSE Tail(rows)

BadYear(row) == Len(row) >= 2 /\ ~PyInt(row[2]).ok

\* C4 as stated: if any data row has fewer than 4 fields or a year that is
\* not an integer, the load ends with an empty sequence and the error
\* outcome.
C4_AnyShortRowFails ==
    (/\ h.op = "load" /\ file.exists
     /\ \E i \in DOMAIN DataRows(file) :
           Len(DataRows(file)[i]) < 4 \/ BadYear(DataRows(file)[i]))
    => (cars = <<>> /\ h.outcome = "error")

\* C4, amended: if any data row that is not blank has fewer than 4 fields or
\* a year that is not an integer, the load ends with an empty sequence
\* (rows parsed before it and what the garage held are discarded) and the
\* error outcome, which is neither success nor not-found.
C4_MalformedRowFails ==
    (/\ h.op = "load" /\ file.exists
     /\ \E i \in DOMAIN DataRows(file) :
           /\ DataRows(file)[i] # <<>>
           /\ Len(DataRows(file)[i]) < 4 \/ BadYear(DataRows(file)[i]))
    => (cars = <<>> /\ h.outcome = "error")

C4_Witness ==
    /\ h.op = "load" /\ file.exists /\ ~h.io
    /\ Len(DataRows(file)) >= 2
    /\ RowToCar(DataRows(file)[1]).ok
    /\ DataRows(file)[2] # <<>> /\ Len(DataRows(file)[2]) < 4
    /\ cars = <<>> /\ h.outcome = "error"

\* C5: load of a path that does not exist reports not-found, leaves the file
\* system alone and leaves the sequence as it was.
C5_NotFoundKeeps ==
    [][(h'.op = "load" /\ ~file.exists)
        => (h'.outcome = "not_found" /\ cars' = cars /\ file' = file)]_vars

C5_Witness ==
    h.op = "load" /\ h.outcome = "not_found" /\ ~file.exists /\ cars # <<>>

RowsOf(cs) == [i \in 1..Len(cs) |-> CarRow(cs[i])]

\* C6: a save never changes the in-memory sequence, and after a successful
\* save the file reads back as the header row followed by exactly one row
\* per car of the sequence, in order, whatever the file held before.
C6_SaveEncodes ==
    [][h'.op = "save"
        => /\ cars' = cars
           /\ h'.outcome = "saved" =>
                /\ file'.exists
                /\ ParseCSV(file'.text) = [rows |-> <<Header>> \o RowsOf(cars), err |-> FALSE]]_vars

C6_Witness ==
    /\ h.op = "save" /\ h.outcome = "saved"
    /\ Len(cars) >= 2
    /\ ParseCSV(file.text).rows = <<Header>> \o RowsOf(cars)

\* C7: remove_car(index) with 0 <= index < length returns the car at index,
\* shortens the sequence by one, keeps the cars before index in place and
\* moves each later car down by one.
C7_RemoveShifts ==
    [][(h'.op = "remove_car" /\ 0 <= h'.idx /\ h'.idx < Len(cars))
        => /\ h'.outcome = "ok"
           /\ h'.car = <<cars[h'.idx + 1]>>
           /\ Len(cars') = Len(cars) - 1
           /\ \A j \in 1..h'.idx : cars'[j] = cars[j]
           /\ \A j \in (h'.idx + 2)..Len(cars) : cars'[j - 1] = cars[j]]_vars

C7_Witness ==
    h.op = "remove_car" /\ h.outcome = "ok" /\ h.idx = 0 /\ cars # <<>>

\* C8: delete_car given input that is not a number, or a number outside
\* 1..length, reports it and changes nothing (no save, same file); given n
\* in 1..length it removes the car at 0-based position n-1 and then saves.
C8_DeleteCar ==
    [][h'.op = "delete_car"
        => IF cars # <<>> /\ PyInt(h'.inp).ok /\ PyInt(h'.inp).val \in 1..Len(cars)
           THEN LET n == PyInt(h'.inp).val
                IN  /\ h'.outcome = "deleted"
                    /\ h'.car = <<cars[n]>>
                    /\ cars' = SubSeq(cars, 1, n - 1) \o SubSeq(cars, n + 1, Len(cars))
                    /\ h'.save \in {"saved", "save_error"}
                    /\ h'.save = "saved" => file' = FileOf(SaveText(cars'))
           ELSE /\ h'.outcome \in {"invalid_input", "invalid_number", "empty"}
                /\ cars' = cars
                /\ file' = file
                /\ h'.save = "none"]_vars

C8_Witness ==
    /\ h.op = "delete_car" /\ h.outcome = "deleted" /\ h.save = "saved"
    /\ h.inp = <<"1">>
    /\ cars # <<>>

\* C9: add_car always succeeds and appends: the length grows by one, the new
\* last element is the added car and every earlier car keeps its position.
C9_AddAppends ==
    [][h'.op = "add_car"
        => /\ h'.outcome = "ok"
           /\ Len(cars') = Len(cars) + 1
           /\ <<cars'[Len(cars')]>> = h'.car
           /\ \A i \in 1..Len(cars) : cars'[i] = cars[i]]_vars

C9_Witness ==
    h.op = "add_car" /\ Len(cars) >= 2 /\ cars[1] # cars[2]

\* C10: in the interactive session, after every completed add or delete
\* (whose save may succeed or fail) the file encodes exactly the in-memory
\* sequence, so that a new session loads the sequence this one held.
C10_FileMatchesMemory ==
    (h.op = "menu_add" \/ (h.op = "delete_car" /\ h.outcome = "deleted"))
    => /\ file.exists
       /\ LoadFile(<<>>, file, FALSE) = [cars |-> cars, outcome |-> "loaded"]

====
